---- MODULE Spec2Model ----
(***************************************************************************)
(* Codebase-Explainer: the dependency graph builder                        *)
(* (app/services/dependency_graph.py), the codebase comparator             *)
(* (app/services/comparison.py) and the metadata builder                   *)
(* (app/services/metadata_builder.py).                                     *)
(*                                                                         *)
(* A relative path "a/b/c.py" is the sequence of its components            *)
(* <<"a","b","c">> (every globbed file ends in ".py"); a dotted name       *)
(* "a.b.c" is the sequence of its segments.  A Python dict is a sequence   *)
(* of [k, v] entries in insertion order; a Python set is a set, iterated   *)
(* in an order the model leaves open.                                      *)
(***************************************************************************)
EXTENDS Integers, Sequences, FiniteSets, TLC

\* Largest number of import statements in one analysed tree.
MaxImports == 2

\* Largest number of import statements per file in a tree whose imports all
\* name modules of the tree (LinkedTrees).
MaxPerFile == 1

\* The files a tree may hold, and the import targets its files may name.
Paths == { <<"c">>, <<"x", "c">>, <<"a", "b", "c">> }
Tokens ==
  { <<"c">>, <<"x", "c">>, <<"b", "c", "d">>, <<"numpy">>,
    <<"app", "nonexistent", "module">> }

None == "None"

VARIABLES
  tree,            \* the files under upload_dir: path -> [ok, body]
  pc,              \* position inside build_graph
  files_data,      \* self.files_data   (dict: rel_path -> imports)
  graph,           \* self.graph        (defaultdict(set))
  reverse_graph,   \* self.reverse_graph (defaultdict(set))
  circular_deps,   \* self.circular_deps
  missing_imports, \* self.missing_imports
  visited,         \* _detect_circular_dependencies: visited
  rec_stack,       \* _detect_circular_dependencies: rec_stack
  frames,          \* the active dfs() calls, outermost first
  root_i,          \* position of "for node in self.graph.keys()"
  graph_data,      \* what build_graph returned, None before
  first_data       \* what the earlier builds of the same tree returned

gvars == << tree, pc, files_data, graph, reverse_graph, circular_deps,
            missing_imports, visited, rec_stack, frames, root_i, graph_data,
            first_data >>

\* CodebaseComparator
VARIABLES
  base_metadata,    \* self.base_metadata: the base snapshot
  compare_metadata, \* self.compare_metadata: the candidate snapshot
  comparison        \* what compare returned, Absent before

cvars == << base_metadata, compare_metadata, comparison >>

\* MetadataBuilder
VARIABLES upload_dir, mpc, scanned, files_metadata, file_types, folder_structure,
          total_bytes, total_lines, total_classes, total_functions,
          external_packages, metadata

mvars == << upload_dir, mpc, scanned, files_metadata, file_types, folder_structure,
            total_bytes, total_lines, total_classes, total_functions,
            external_packages, metadata >>

\* routes/graph.py and the upload directory it serves
VARIABLES dir_present, graph_cache, response, requests

rvars == << dir_present, graph_cache, response, requests >>

vars == << gvars, cvars, mvars, rvars >>

\* An Optional record that is not there (dependencies=None).
Absent == << >>

----------------------------------------------------------------------------
\* Python containers

\* Every order in which the members of a set can be iterated.
Orders(S) ==
  { s \in [1..Cardinality(S) -> S] : \A i, j \in 1..Cardinality(S) : s[i] = s[j] => i = j }

Range(s) == { s[i] : i \in 1..Len(s) }

DictKeys(d) == [i \in 1..Len(d) |-> d[i].k]

DictHas(d, key) == \E i \in 1..Len(d) : d[i].k = key

DictGet(d, key, default) ==
  IF DictHas(d, key) THEN d[CHOOSE i \in 1..Len(d) : d[i].k = key].v ELSE default

DictSet(d, key, val) ==
  IF DictHas(d, key)
  THEN [i \in 1..Len(d) |-> IF d[i].k = key THEN [k |-> key, v |-> val] ELSE d[i]]
  ELSE Append(d, [k |-> key, v |-> val])

\* d[key].add(elem) on a defaultdict(set)
SetAdd(d, key, elem) == DictSet(d, key, DictGet(d, key, {}) \cup {elem})

MapPut(map, key, val) ==
  [x \in (DOMAIN map) \cup {key} |-> IF x = key THEN val ELSE map[x]]

----------------------------------------------------------------------------
\* DependencyGraphBuilder

\* ast.walk over a module body: Import gives every alias name, ImportFrom
\* gives node.module when it is truthy (the relative level is not looked
\* at).  A module that is None ("from . import name") is the empty name.
RECURSIVE WalkImports(_, _)
WalkImports(body, i) ==
  IF i > Len(body) THEN << >>
  ELSE LET node == body[i]
           here == IF node.kind = "Import" THEN node.names
                   ELSE IF node.module # << >> THEN << node.module >> ELSE << >>
       IN here \o WalkImports(body, i + 1)

\* A file that does not parse (or cannot be read) yields the empty list.
ExtractImports(content) ==
  IF content.ok THEN WalkImports(content.body, 1) ELSE << >>

\* file_path.replace('/', '.').replace('\\', '.').replace('.py', ''):
\* every ".py" goes, the extension and any later component that is "py".
RECURSIVE StripDotPy(_, _)
StripDotPy(parts, i) ==
  IF i > Len(parts) THEN << >>
  ELSE (IF i > 1 /\ parts[i] = "py" THEN << >> ELSE << parts[i] >>)
       \o StripDotPy(parts, i + 1)

ModuleName(file_path) == StripDotPy(file_path, 1)

\* "Also map shorter versions" without the "not in module_map" test: the
\* file scanned last takes every suffix.
RECURSIVE MapShorterOverwriting(_, _, _, _)
MapShorterOverwriting(module_map, parts, file_path, i) ==
  IF i > Len(parts) THEN module_map
  ELSE MapShorterOverwriting(MapPut(module_map, SubSeq(parts, i, Len(parts)), file_path),
                             parts, file_path, i + 1)

RECURSIVE MapShorter(_, _, _, _)
MapShorter(module_map, parts, file_path, i) ==
  IF i > Len(parts) THEN module_map
  ELSE LET partial == SubSeq(parts, i, Len(parts))
       IN MapShorter(IF partial \in DOMAIN module_map THEN module_map
                     ELSE MapPut(module_map, partial, file_path),
                     parts, file_path, i + 1)

\* "module_map[module_name] = file_path" done only when the name is not
\* mapped yet: a suffix registered earlier keeps a file's own name
RECURSIVE MapFilesKeepingFirst(_, _, _)
MapFilesKeepingFirst(keys, n, module_map) ==
  IF n > Len(keys) THEN module_map
  ELSE LET file_path == keys[n]
           module_name == ModuleName(file_path)
       IN MapFilesKeepingFirst(keys, n + 1,
                               MapShorter(module_map, module_name, file_path, 1))

RECURSIVE MapFiles(_, _, _)
MapFiles(keys, n, module_map) ==
  IF n > Len(keys) THEN module_map
  ELSE LET file_path == keys[n]
           module_name == ModuleName(file_path)
       IN MapFiles(keys, n + 1,
                   MapShorter(MapPut(module_map, module_name, file_path),
                              module_name, file_path, 1))

BuildModuleMapping(fd) == MapFiles(DictKeys(fd), 1, << >>)

\* the loop run from the shortest leading part upwards
ResolvePartialShortestFirst(parts, i, module_map) ==
  LET hits == { j \in 1..i : SubSeq(parts, 1, j) \in DOMAIN module_map }
  IN IF hits = {} THEN None
     ELSE module_map[SubSeq(parts, 1, CHOOSE j \in hits : \A k \in hits : j <= k)]

RECURSIVE ResolvePartial(_, _, _)
ResolvePartial(parts, i, module_map) ==
  IF i < 1 THEN None
  ELSE LET partial == SubSeq(parts, 1, i)
       IN IF partial \in DOMAIN module_map THEN module_map[partial]
          ELSE ResolvePartial(parts, i - 1, module_map)

ResolveImport(import_name, source_file, module_map) ==
  IF import_name \in DOMAIN module_map THEN module_map[import_name]
  ELSE ResolvePartial(import_name, Len(import_name), module_map)

local_patterns == { "app", "src", "lib", "utils", "services", "models", "routes" }

\* the whole import name looked up in local_patterns, not its first part
IsLocalImportWholeName(import_name) ==
  Len(import_name) = 1 /\ import_name[1] \in local_patterns

IsLocalImport(import_name) == import_name[1] \in local_patterns

\* _build_relationships with the reverse edge filed under the importing file
RECURSIVE RelateImportsReverseSwapped(_, _, _, _, _)
RelateImportsReverseSwapped(st, file_path, imports, j, module_map) ==
  IF j > Len(imports) THEN st
  ELSE LET import_name == imports[j]
           target_file == ResolveImport(import_name, file_path, module_map)
           st1 == IF target_file # None
                  THEN [st EXCEPT !.graph = SetAdd(@, file_path, target_file),
                                  !.reverse_graph = SetAdd(@, file_path, target_file)]
                  ELSE IF IsLocalImport(import_name)
                  THEN [st EXCEPT !.missing_imports =
                          Append(@, [file |-> file_path, import |-> import_name])]
                  ELSE st
       IN RelateImportsReverseSwapped(st1, file_path, imports, j + 1, module_map)

\* _build_relationships with "self.graph[file_path] = {target_file}": the
\* last resolved import of a file replaces the earlier ones
RECURSIVE RelateImportsLastWins(_, _, _, _, _)
RelateImportsLastWins(st, file_path, imports, j, module_map) ==
  IF j > Len(imports) THEN st
  ELSE LET import_name == imports[j]
           target_file == ResolveImport(import_name, file_path, module_map)
           st1 == IF target_file # None
                  THEN [st EXCEPT !.graph = DictSet(@, file_path, {target_file}),
                                  !.reverse_graph = SetAdd(@, target_file, file_path)]
                  ELSE IF IsLocalImport(import_name)
                  THEN [st EXCEPT !.missing_imports =
                          Append(@, [file |-> file_path, import |-> import_name])]
                  ELSE st
       IN RelateImportsLastWins(st1, file_path, imports, j + 1, module_map)

\* One pass of the inner loop of _build_relationships over a file's imports.
RECURSIVE RelateImports(_, _, _, _, _)
RelateImports(st, file_path, imports, j, module_map) ==
  IF j > Len(imports) THEN st
  ELSE LET import_name == imports[j]
           target_file == ResolveImport(import_name, file_path, module_map)
           st1 == IF target_file # None
                  THEN [st EXCEPT !.graph = SetAdd(@, file_path, target_file),
                                  !.reverse_graph = SetAdd(@, target_file, file_path)]
                  ELSE IF IsLocalImport(import_name)
                  THEN [st EXCEPT !.missing_imports =
                          Append(@, [file |-> file_path, import |-> import_name])]
                  ELSE st
       IN RelateImports(st1, file_path, imports, j + 1, module_map)

RECURSIVE RelateFiles(_, _, _, _)
RelateFiles(st, fd, n, module_map) ==
  IF n > Len(fd) THEN st
  ELSE RelateFiles(RelateImports(st, fd[n].k, fd[n].v, 1, module_map),
                   fd, n + 1, module_map)

BuildRelationshipsOf(st, fd) == RelateFiles(st, fd, 1, BuildModuleMapping(fd))

----------------------------------------------------------------------------
\* The trees: every assignment of at most MaxImports import statements to
\* the files of a subset of Paths.

PathRank(p) == Len(p)

\* The import statements of the files ranked before p, lens[q] for each.
RECURSIVE Before(_, _, _)
Before(lens, F, p) ==
  LET S == { q \in F : PathRank(q) < PathRank(p) }
  IN IF S = {} THEN 0
     ELSE LET q == CHOOSE y \in S : \A z \in S : PathRank(z) <= PathRank(y)
          IN lens[q] + Before(lens, F, q)

RECURSIVE Total(_, _)
Total(lens, F) ==
  IF F = {} THEN 0
  ELSE LET p == CHOOSE y \in F : TRUE IN lens[p] + Total(lens, F \ {p})

ImportStmt(t) == [kind |-> "Import", names |-> << t >>, module |-> << >>, level |-> 0]

TreesOver(F) ==
  UNION { UNION { { [p \in F |->
                       [ok |-> TRUE,
                        body |-> [i \in 1..lens[p] |->
                                    ImportStmt(flat[Before(lens, F, p) + i])]] ] :
                    flat \in [1..n -> Tokens] } :
                  lens \in { l \in [F -> 0..n] : Total(l, F) = n } } :
          n \in 0..MaxImports }

Trees == UNION { TreesOver(F) : F \in SUBSET Paths }

\* The tokens that name a module of Paths, and the trees in which every
\* file has at most MaxPerFile import statements, each of such a token.
ModuleTokens == { << "c" >>, << "x", "c" >>, << "b", "c", "d" >> }

LinkedTrees ==
  UNION { [F -> { [ok |-> TRUE, body |-> b] :
                    b \in UNION { [1..n -> { ImportStmt(t) : t \in ModuleTokens }] :
                                  n \in 0..MaxPerFile } }] :
          F \in SUBSET Paths }

\* Four files in a ring, each importing the modules of the files that
\* follow it, none of them or the next one or the next two: more files than
\* the statistics list.
Spans == { 0, 1, 2 }

RingPaths == << << "c" >>, << "x", "c" >>, << "a", "b", "c" >>, << "x", "d" >> >>
RingTokens == << << "c" >>, << "x", "c" >>, << "b", "c" >>, << "x", "d" >> >>

WideTrees ==
  { [p \in Range(RingPaths) |->
       LET i == CHOOSE j \in 1..Len(RingPaths) : RingPaths[j] = p
       IN [ok |-> TRUE,
           body |-> [k \in 1..span[i] |->
                       ImportStmt(RingTokens[((i + k - 1) % Len(RingPaths)) + 1])]]] :
    span \in [1..Len(RingPaths) -> Spans] }

\* The trees with files that do not parse or cannot be read: a file has at
\* most one import statement, of a module of Paths, and parses or not.
BrokenTrees ==
  UNION { [F -> { [ok |-> ok, body |-> b] :
                    ok \in BOOLEAN,
                    b \in { << >> } \cup { << ImportStmt(t) >> : t \in ModuleTokens } }] :
          F \in SUBSET Paths }

\* Largest number of modules one file imports in BranchingTrees.
MaxFanout == 2

\* The trees whose files import at most MaxFanout of the modules of
\* ModuleTokens, each at most once, in the order of ModuleTokenOrder.
ModuleTokenOrder == << << "c" >>, << "x", "c" >>, << "b", "c", "d" >> >>

ImportsOf(S) ==
  LET kept == SelectSeq(ModuleTokenOrder, LAMBDA t : t \in S)
  IN [i \in 1..Len(kept) |-> ImportStmt(kept[i])]

BranchingTrees ==
  UNION { [F -> { [ok |-> TRUE, body |-> ImportsOf(S)] :
                    S \in { T \in SUBSET ModuleTokens : Cardinality(T) <= MaxFanout } }] :
          F \in SUBSET Paths }

\* Files of which one's dotted name is a leading part of another's suffix
\* (b.py and a/b/c.py), and two files of one dotted name (b.py and
\* b/py.py, both "b"); tokens with one, two or no leading part in the
\* mapping.  A file holds at most one import statement.
PrefixPaths == { << "b" >>, << "b", "py" >>, << "a", "b", "c" >> }
PrefixTokens ==
  { << "b", "c", "d" >>, << "b", "x" >>, << "a", "b", "c" >>, << "c" >>, << "numpy", "b" >> }

PrefixTrees ==
  UNION { [F -> { [ok |-> TRUE, body |-> b] :
                    b \in { << >> } \cup { << ImportStmt(t) >> : t \in PrefixTokens } }] :
          F \in SUBSET PrefixPaths }

\* "from <level dots><module> import name"; module is << >> in
\* "from . import name"
ImportFromStmt(module, level) ==
  [kind |-> "ImportFrom", names |-> << << "name" >> >>, module |-> module, level |-> level]

\* The trees whose files hold at most one statement: an import of a module
\* of ModuleTokens, "from c import name", "from .c import name" or
\* "from . import name".
RelativeTrees ==
  UNION { [F -> { [ok |-> TRUE, body |-> b] :
                    b \in { << >> }
                           \cup { << ImportStmt(t) >> : t \in ModuleTokens }
                           \cup { << ImportFromStmt(<< "c" >>, 0) >>,
                                  << ImportFromStmt(<< "c" >>, 1) >>,
                                  << ImportFromStmt(<< >>, 1) >> } }] :
          F \in SUBSET Paths }

----------------------------------------------------------------------------
\* DependencyGraphBuilder(upload_dir)
NewBuilder ==
  /\ pc = "scan"
  /\ files_data = << >>
  /\ graph = << >>
  /\ reverse_graph = << >>
  /\ circular_deps = << >>
  /\ missing_imports = << >>
  /\ visited = {}
  /\ rec_stack = {}
  /\ frames = << >>
  /\ root_i = 1
  /\ graph_data = None

NoComparison ==
  /\ base_metadata = Absent
  /\ compare_metadata = Absent
  /\ comparison = Absent

\* No request has been made of the graph route.
NoRoute ==
  /\ dir_present = TRUE
  /\ graph_cache = << >>
  /\ response = << >>
  /\ requests = 0

\* No metadata builder is at work.
NoMetadata ==
  /\ upload_dir = {}
  /\ mpc = "idle"
  /\ scanned = << >>
  /\ files_metadata = << >>
  /\ file_types = << >>
  /\ folder_structure = << >>
  /\ total_bytes = 0
  /\ total_lines = 0
  /\ total_classes = 0
  /\ total_functions = 0
  /\ external_packages = {}
  /\ metadata = Absent

Init ==
  /\ tree \in Trees
  /\ NewBuilder
  /\ first_data = << >>
  /\ NoComparison
  /\ NoMetadata
  /\ NoRoute

InitLinked ==
  /\ tree \in LinkedTrees
  /\ NewBuilder
  /\ first_data = << >>
  /\ NoComparison
  /\ NoMetadata
  /\ NoRoute

\* build_graph, one turn of "for py_file in python_files": glob yields the
\* files in an order the file system decides.
ScanFile ==
  /\ pc = "scan"
  /\ \E py_file \in (DOMAIN tree) \ Range(DictKeys(files_data)) :
       files_data' = DictSet(files_data, py_file, ExtractImports(tree[py_file]))
  /\ UNCHANGED << tree, pc, graph, reverse_graph, circular_deps, missing_imports,
                  visited, rec_stack, frames, root_i, graph_data, first_data, cvars, mvars, rvars >>

\* build_graph after the scan loop: _build_relationships()
BuildRelationships ==
  /\ pc = "scan"
  /\ DOMAIN tree = Range(DictKeys(files_data))
  /\ LET st == BuildRelationshipsOf(
                 [graph |-> graph, reverse_graph |-> reverse_graph,
                  missing_imports |-> missing_imports], files_data)
     IN /\ graph' = st.graph
        /\ reverse_graph' = st.reverse_graph
        /\ missing_imports' = st.missing_imports
  /\ pc' = "detect"
  /\ visited' = {}
  /\ rec_stack' = {}
  /\ frames' = << >>
  /\ root_i' = 1
  /\ UNCHANGED << tree, files_data, circular_deps, graph_data, first_data, cvars, mvars, rvars >>

\* path[path.index(neighbor):] + [neighbor] when the last two entries only
\* are kept (a slice from the end, not from the neighbor's position)
CycleSliceFromEnd(path, neighbor) ==
  SubSeq(path, Len(path), Len(path)) \o << neighbor >>

\* the whole path kept, not its slice from the neighbor's position
CycleSliceWholePath(path, neighbor) == path \o << neighbor >>

\* cycle_start = path.index(neighbor); path[cycle_start:] + [neighbor]
CycleSlice(path, neighbor) ==
  LET cycle_start == CHOOSE i \in 1..Len(path) :
                       /\ path[i] = neighbor
                       /\ \A j \in 1..(i - 1) : path[j] # neighbor
  IN SubSeq(path, cycle_start, Len(path)) \o << neighbor >>

\* dfs(node, path), on entry: visited.add, rec_stack.add, path.append
Enter(node, path) ==
  [node |-> node, path |-> Append(path, node), todo |-> DictGet(graph, node, {})]

\* _detect_circular_dependencies, "for node in self.graph.keys()" on a node
\* that is not visited yet: dfs(node, [])
DetectRoot ==
  /\ pc = "detect"
  /\ frames = << >>
  /\ root_i <= Len(graph)
  /\ graph[root_i].k \notin visited
  /\ LET node == graph[root_i].k
     IN /\ visited' = visited \cup {node}
        /\ rec_stack' = rec_stack \cup {node}
        /\ frames' = << Enter(node, << >>) >>
  /\ root_i' = root_i + 1
  /\ UNCHANGED << tree, pc, files_data, graph, reverse_graph, circular_deps,
                  missing_imports, graph_data, first_data, cvars, mvars, rvars >>

\* ... on a node some earlier dfs has visited
DetectSkipRoot ==
  /\ pc = "detect"
  /\ frames = << >>
  /\ root_i <= Len(graph)
  /\ graph[root_i].k \in visited
  /\ root_i' = root_i + 1
  /\ UNCHANGED << tree, pc, files_data, graph, reverse_graph, circular_deps,
                  missing_imports, visited, rec_stack, frames, graph_data, first_data, cvars, mvars, rvars >>

Top == frames[Len(frames)]

WithoutNeighbor(neighbor) ==
  [frames EXCEPT ![Len(frames)].todo = @ \ {neighbor}]

\* dfs: "if neighbor not in visited: dfs(neighbor, path.copy())"
DfsDescend ==
  /\ pc = "detect"
  /\ frames # << >>
  /\ \E neighbor \in Top.todo :
       /\ neighbor \notin visited
       /\ visited' = visited \cup {neighbor}
       /\ rec_stack' = rec_stack \cup {neighbor}
       /\ frames' = Append(WithoutNeighbor(neighbor), Enter(neighbor, Top.path))
  /\ UNCHANGED << tree, pc, files_data, graph, reverse_graph, circular_deps,
                  missing_imports, root_i, graph_data, first_data, cvars, mvars, rvars >>

\* dfs: "elif neighbor in rec_stack" with the neighbor on the path: the cycle
\* is recorded and every active call returns True.
DfsCycle ==
  /\ pc = "detect"
  /\ frames # << >>
  /\ \E neighbor \in Top.todo :
       /\ neighbor \in visited
       /\ neighbor \in rec_stack
       /\ neighbor \in Range(Top.path)
       /\ circular_deps' = Append(circular_deps, CycleSlice(Top.path, neighbor))
  /\ frames' = << >>
  /\ UNCHANGED << tree, pc, files_data, graph, reverse_graph, missing_imports,
                  visited, rec_stack, root_i, graph_data, first_data, cvars, mvars, rvars >>

\* dfs: "elif neighbor in rec_stack" with the neighbor not on the path:
\* path.index(neighbor) raises ValueError, which leaves build_graph.
DfsValueError ==
  /\ pc = "detect"
  /\ frames # << >>
  /\ \E neighbor \in Top.todo :
       /\ neighbor \in visited
       /\ neighbor \in rec_stack
       /\ neighbor \notin Range(Top.path)
  /\ pc' = "raised"
  /\ frames' = << >>
  /\ UNCHANGED << tree, files_data, graph, reverse_graph, circular_deps,
                  missing_imports, visited, rec_stack, root_i, graph_data, first_data, cvars, mvars, rvars >>

\* dfs: a neighbor that is visited and not in rec_stack is passed over
DfsPass ==
  /\ pc = "detect"
  /\ frames # << >>
  /\ \E neighbor \in Top.todo :
       /\ neighbor \in visited
       /\ neighbor \notin rec_stack
       /\ frames' = WithoutNeighbor(neighbor)
  /\ UNCHANGED << tree, pc, files_data, graph, reverse_graph, circular_deps,
                  missing_imports, visited, rec_stack, root_i, graph_data, first_data, cvars, mvars, rvars >>

\* dfs: the loop is over: rec_stack.remove(node); return False
DfsReturn ==
  /\ pc = "detect"
  /\ frames # << >>
  /\ Top.todo = {}
  /\ rec_stack' = rec_stack \ {Top.node}
  /\ frames' = SubSeq(frames, 1, Len(frames) - 1)
  /\ UNCHANGED << tree, pc, files_data, graph, reverse_graph, circular_deps,
                  missing_imports, visited, root_i, graph_data, first_data, cvars, mvars, rvars >>

\* file_counts left in the order of the dict, not sorted
SortByCountUnsorted(file_counts, n) == SubSeq(file_counts, 1, n)

\* file_counts.sort(key=count, reverse=True): a stable sort, so entries of
\* equal count keep the order of the dict they come from.
RECURSIVE SortByCount(_, _)
SortByCount(file_counts, n) ==
  IF n = 0 THEN << >>
  ELSE LET sorted == SortByCount(file_counts, n - 1)
           x == file_counts[n]
           pos == Cardinality({ i \in 1..Len(sorted) : sorted[i].count >= x.count })
       IN SubSeq(sorted, 1, pos) \o << x >> \o SubSeq(sorted, pos + 1, Len(sorted))

FirstN(s, limit) == SubSeq(s, 1, IF Len(s) < limit THEN Len(s) ELSE limit)

\* _get_most_imported / _get_most_imports over the dict d
MostOf(d, limit) ==
  FirstN(SortByCount([i \in 1..Len(d) |->
                        [file |-> d[i].k, count |-> Cardinality(d[i].v)]], Len(d)),
         limit)

GetMostImported(limit) == MostOf(reverse_graph, limit)

GetMostImports(limit) == MostOf(graph, limit)

Max(a, b) == IF a >= b THEN a ELSE b

NodeOf(file_path) ==
  LET imports_count == Cardinality(DictGet(graph, file_path, {}))
      imported_by_count == Cardinality(DictGet(reverse_graph, file_path, {}))
  IN [id |-> file_path,
      label |-> file_path[Len(file_path)],
      full_path |-> file_path,
      imports_count |-> imports_count,
      imported_by_count |-> imported_by_count,
      size |-> Max(10, imported_by_count * 5)]

\* The (source, target) pairs in the orders "for source, targets in
\* self.graph.items(): for target in targets" can produce, from entry n on.
RECURSIVE EdgePairs(_)
EdgePairs(n) ==
  IF n > Len(graph) THEN { << >> }
  ELSE { [i \in 1..Len(targets) |-> << graph[n].k, targets[i] >>] \o rest :
           targets \in Orders(graph[n].v), rest \in EdgePairs(n + 1) }

EdgesOf(pairs) ==
  [i \in 1..Len(pairs) |->
     [id |-> i - 1, from |-> pairs[i][1], to |-> pairs[i][2], arrows |-> "to"]]

GraphData(file_order, pairs) ==
  LET all_files == Range(DictKeys(files_data))
      nodes == [i \in 1..Len(file_order) |-> NodeOf(file_order[i])]
      edges == EdgesOf(pairs)
      stats ==
        [total_files |-> Cardinality(all_files),
         total_dependencies |-> Len(edges),
         circular_dependencies |-> Len(circular_deps),
         missing_imports |-> Len(missing_imports),
         isolated_files |->
           Cardinality({ f \in all_files : /\ DictGet(graph, f, {}) = {}
                                           /\ DictGet(reverse_graph, f, {}) = {} }),
         most_imported |-> GetMostImported(3),
         most_imports |-> GetMostImports(3)]
  IN [nodes |-> nodes,
      edges |-> edges,
      circular_dependencies |-> circular_deps,
      missing_imports |-> missing_imports,
      statistics |-> stats]

\* build_graph once the root loop is over: _generate_graph_data() and return.
\* all_files and the target sets are sets: their iteration order is open.
GenerateGraphData ==
  /\ pc = "detect"
  /\ frames = << >>
  /\ root_i > Len(graph)
  /\ \E file_order \in Orders(Range(DictKeys(files_data))), pairs \in EdgePairs(1) :
       graph_data' = GraphData(file_order, pairs)
  /\ pc' = "done"
  /\ UNCHANGED << tree, files_data, graph, reverse_graph, circular_deps,
                  missing_imports, visited, rec_stack, frames, root_i, first_data, cvars, mvars, rvars >>

\* A second request for the same, unchanged tree: a new
\* DependencyGraphBuilder(upload_dir) and build_graph again.
BuildAgain ==
  /\ pc = "done"
  /\ first_data = << >>
  /\ first_data' = << graph_data >>
  /\ pc' = "scan"
  /\ files_data' = << >>
  /\ graph' = << >>
  /\ reverse_graph' = << >>
  /\ circular_deps' = << >>
  /\ missing_imports' = << >>
  /\ visited' = {}
  /\ rec_stack' = {}
  /\ frames' = << >>
  /\ root_i' = 1
  /\ graph_data' = None
  /\ UNCHANGED << tree, cvars, mvars, rvars >>

\* build_graph called again on the same builder, the tree unchanged: the
\* attributes of the builder are as the first call left them.  The scan
\* loop assigns to every key of files_data the list it already holds, so
\* the dict and its order stay and the call goes on to _build_relationships.
BuildSame ==
  /\ pc = "done"
  /\ first_data = << >>
  /\ first_data' = << graph_data >>
  /\ pc' = "scan"
  /\ graph_data' = None
  /\ visited' = {}
  /\ rec_stack' = {}
  /\ frames' = << >>
  /\ root_i' = 1
  /\ UNCHANGED << tree, files_data, graph, reverse_graph, circular_deps,
                  missing_imports, cvars, mvars, rvars >>

Next ==
  \/ ScanFile
  \/ BuildRelationships
  \/ DetectRoot
  \/ DetectSkipRoot
  \/ DfsDescend
  \/ DfsCycle
  \/ DfsValueError
  \/ DfsPass
  \/ DfsReturn
  \/ GenerateGraphData

NextAgain == Next \/ BuildAgain

Spec == Init /\ [][Next]_vars

\* build_graph on the trees whose imports all name modules of the tree
SpecLinked == InitLinked /\ [][Next]_vars

\* build_graph on the trees with files that do not parse
InitBroken ==
  /\ tree \in BrokenTrees
  /\ NewBuilder
  /\ first_data = << >>
  /\ NoComparison
  /\ NoMetadata
  /\ NoRoute

SpecBroken == InitBroken /\ [][Next]_vars

\* build_graph on the trees whose files import several modules of the tree
InitBranching ==
  /\ tree \in BranchingTrees
  /\ NewBuilder
  /\ first_data = << >>
  /\ NoComparison
  /\ NoMetadata
  /\ NoRoute

SpecBranching == InitBranching /\ [][Next]_vars

\* build_graph on the trees of PrefixTrees
InitPrefix ==
  /\ tree \in PrefixTrees
  /\ NewBuilder
  /\ first_data = << >>
  /\ NoComparison
  /\ NoMetadata
  /\ NoRoute

SpecPrefix == InitPrefix /\ [][Next]_vars

\* build_graph on the trees with relative imports
InitRelative ==
  /\ tree \in RelativeTrees
  /\ NewBuilder
  /\ first_data = << >>
  /\ NoComparison
  /\ NoMetadata
  /\ NoRoute

SpecRelative == InitRelative /\ [][Next]_vars

\* build_graph on the rings of four files
InitWide ==
  /\ tree \in WideTrees
  /\ NewBuilder
  /\ first_data = << >>
  /\ NoComparison
  /\ NoMetadata
  /\ NoRoute

SpecWide == InitWide /\ [][Next]_vars

NextSame == Next \/ BuildSame

\* two calls of build_graph on one builder
SpecSame == Init /\ [][NextSame]_vars

\* two builds of the same tree, each on a builder of its own
SpecAgain == Init /\ [][NextAgain]_vars

----------------------------------------------------------------------------
\* CodebaseComparator.  A float that round() produced is the integer of its
\* last kept decimal: similarity_score in thousandths, the percentages in
\* hundredths of a percent.

\* Largest number of files in a snapshot drawn for a comparison.
MaxCmpFiles == 2

\* The relative paths and package names of the snapshots, in sorted() order.
CmpPaths == << "a.py", "b.py", "c.py" >>
PackageNames == << "numpy", "requests" >>

Sentinel == "No significant changes detected"

\* the summary that is the sentinel alone
SentinelSummary == << [clause |-> Sentinel] >>

\* sorted(S) for a set S of strings that `order` lists in ascending order
Sorted(S, order) == SelectSeq(order, LAMBDA x : x \in S)

Abs(n) == IF n < 0 THEN -n ELSE n

\* round(num / den, k) as a count of 10^-k, num scaled by the caller:
\* the nearest integer to num / den, a tie going to the even one.
RoundHalfEven(num, den) ==
  LET q == Abs(num) \div den
      r == Abs(num) % den
      up == (2 * r > den) \/ (2 * r = den /\ q % 2 = 1)
      m == IF up THEN q + 1 ELSE q
  IN IF num < 0 THEN -m ELSE m

PathsOf(md) == { md.files[i].relative_path : i \in 1..Len(md.files) }

\* {f.relative_path: f for f in md.files}[path]: the last record of the path
FileOf(md, path) ==
  md.files[CHOOSE i \in 1..Len(md.files) :
             /\ md.files[i].relative_path = path
             /\ \A j \in (i + 1)..Len(md.files) : md.files[j].relative_path # path]

\* "if x.content_hash": neither None nor the empty string
HasHash(f) == f.content_hash \notin { None, "" }

\* the test of _compare_file_structures with the sizes compared whatever the
\* hashes are
IsModifiedBySize(base_file, compare_file) ==
  base_file.size_bytes # compare_file.size_bytes

IsModified(base_file, compare_file) ==
  IF HasHash(base_file) /\ HasHash(compare_file)
  THEN base_file.content_hash # compare_file.content_hash
  ELSE base_file.size_bytes # compare_file.size_bytes

\* _compare_file_structures with every common path listed as unchanged
CompareFileStructuresAllUnchanged(base, compare) ==
  LET base_paths == PathsOf(base)
      compare_paths == PathsOf(compare)
      common == base_paths \cap compare_paths
      modified == { path \in common : IsModified(FileOf(base, path), FileOf(compare, path)) }
  IN [added |-> Sorted(compare_paths \ base_paths, CmpPaths),
      removed |-> Sorted(base_paths \ compare_paths, CmpPaths),
      modified |-> Sorted(modified, CmpPaths),
      unchanged |-> Sorted(common, CmpPaths)]

CompareFileStructures(base, compare) ==
  LET base_paths == PathsOf(base)
      compare_paths == PathsOf(compare)
      common == base_paths \cap compare_paths
      modified == { path \in common : IsModified(FileOf(base, path), FileOf(compare, path)) }
  IN [added |-> Sorted(compare_paths \ base_paths, CmpPaths),
      removed |-> Sorted(base_paths \ compare_paths, CmpPaths),
      modified |-> Sorted(modified, CmpPaths),
      unchanged |-> Sorted(common \ modified, CmpPaths)]

\* _compare_metrics with the deltas taken as base minus candidate
CompareMetricsBaseMinusCandidate(base, compare) ==
  LET size_change == base.total_bytes - compare.total_bytes
      lines_change == base.total_lines - compare.total_lines
  IN [size_change |-> size_change,
      size_change_percent |->
        IF base.total_bytes > 0
        THEN RoundHalfEven(size_change * 10000, base.total_bytes) ELSE 0,
      lines_change |-> lines_change,
      lines_change_percent |->
        IF base.total_lines > 0
        THEN RoundHalfEven(lines_change * 10000, base.total_lines) ELSE 0,
      classes_change |-> base.total_classes - compare.total_classes,
      functions_change |-> base.total_functions - compare.total_functions]

CompareMetrics(base, compare) ==
  LET size_change == compare.total_bytes - base.total_bytes
      lines_change == compare.total_lines - base.total_lines
  IN [size_change |-> size_change,
      size_change_percent |->
        IF base.total_bytes > 0
        THEN RoundHalfEven(size_change * 10000, base.total_bytes) ELSE 0,
      lines_change |-> lines_change,
      lines_change_percent |->
        IF base.total_lines > 0
        THEN RoundHalfEven(lines_change * 10000, base.total_lines) ELSE 0,
      classes_change |-> compare.total_classes - base.total_classes,
      functions_change |-> compare.total_functions - base.total_functions]

\* The two set differences of the cycle tuples, before list() orders them.
\* the difference of the cycle sets taken the other way round
NewCircularOfBase(base, compare) ==
  IF base.dependencies = Absent \/ compare.dependencies = Absent THEN {}
  ELSE Range(base.dependencies.circular_dependencies)
         \ Range(compare.dependencies.circular_dependencies)

NewCircular(base, compare) ==
  IF base.dependencies = Absent \/ compare.dependencies = Absent THEN {}
  ELSE Range(compare.dependencies.circular_dependencies)
         \ Range(base.dependencies.circular_dependencies)

ResolvedCircular(base, compare) ==
  IF base.dependencies = Absent \/ compare.dependencies = Absent THEN {}
  ELSE Range(base.dependencies.circular_dependencies)
         \ Range(compare.dependencies.circular_dependencies)

CompareDependencies(base, compare, new_circular, resolved_circular) ==
  LET base_deps == base.dependencies
      compare_deps == compare.dependencies
  IN IF base_deps = Absent \/ compare_deps = Absent
     THEN [added |-> << >>, removed |-> << >>,
           new_circular |-> << >>, resolved_circular |-> << >>]
     ELSE LET base_packages == Range(base_deps.external_packages)
              compare_packages == Range(compare_deps.external_packages)
          IN [added |-> Sorted(compare_packages \ base_packages, PackageNames),
              removed |-> Sorted(base_packages \ compare_packages, PackageNames),
              new_circular |-> new_circular,
              resolved_circular |-> resolved_circular]

\* _calculate_similarity without the two tests on empty file lists
CalculateSimilarityNoEmptyCase(base, compare) ==
  LET common_files == PathsOf(base) \cap PathsOf(compare)
      total_unique == PathsOf(base) \cup PathsOf(compare)
  IN IF Cardinality(total_unique) = 0 THEN 0
     ELSE RoundHalfEven(Cardinality(common_files) * 1000, Cardinality(total_unique))

\* the ratio taken over the larger snapshot, not over the union
CalculateSimilarityOverLarger(base, compare) ==
  LET base_count == Len(base.files)
      compare_count == Len(compare.files)
      common_files == PathsOf(base) \cap PathsOf(compare)
  IN IF base_count = 0 /\ compare_count = 0 THEN 1000
     ELSE IF base_count = 0 \/ compare_count = 0 THEN 0
     ELSE RoundHalfEven(Cardinality(common_files) * 1000, Max(base_count, compare_count))

CalculateSimilarity(base, compare) ==
  LET base_count == Len(base.files)
      compare_count == Len(compare.files)
      common_files == PathsOf(base) \cap PathsOf(compare)
      total_unique == PathsOf(base) \cup PathsOf(compare)
  IN IF base_count = 0 /\ compare_count = 0 THEN 1000
     ELSE IF base_count = 0 \/ compare_count = 0 THEN 0
     ELSE IF Cardinality(total_unique) = 0 THEN 1000
     ELSE RoundHalfEven(Cardinality(common_files) * 1000, Cardinality(total_unique))

\* The clauses of the summary, in order; a clause keeps the numbers its text
\* is formatted from.  "; ".join(lines), or the sentinel as the one clause
\* when there is none.
GenerateSummary(file_changes, metric_changes, dep_changes) ==
  LET size_change == metric_changes.size_change
      lines ==
        (IF Len(file_changes.added) > 0
         THEN << [clause |-> "Added new files", n |-> Len(file_changes.added)] >>
         ELSE << >>)
        \o (IF Len(file_changes.removed) > 0
            THEN << [clause |-> "Removed files", n |-> Len(file_changes.removed)] >>
            ELSE << >>)
        \o (IF Len(file_changes.modified) > 0
            THEN << [clause |-> "Modified files", n |-> Len(file_changes.modified)] >>
            ELSE << >>)
        \o (IF Abs(size_change) > 1024
            THEN << [clause |-> "Codebase size",
                     direction |-> IF size_change > 0 THEN "increased" ELSE "decreased",
                     n |-> Abs(size_change),
                     percent |-> metric_changes.size_change_percent] >>
            ELSE << >>)
        \o (IF metric_changes.lines_change # 0
            THEN << [clause |-> "lines",
                     direction |-> IF metric_changes.lines_change > 0
                                   THEN "added" ELSE "removed",
                     n |-> Abs(metric_changes.lines_change),
                     percent |-> metric_changes.lines_change_percent] >>
            ELSE << >>)
        \o (IF Len(dep_changes.added) > 0
            THEN << [clause |-> "Added dependencies",
                     names |-> FirstN(dep_changes.added, 5),
                     more |-> Max(Len(dep_changes.added) - 5, 0)] >>
            ELSE << >>)
        \o (IF Len(dep_changes.new_circular) > 0
            THEN << [clause |-> "Introduced new circular dependencies",
                     n |-> Len(dep_changes.new_circular)] >>
            ELSE << >>)
        \o (IF Len(dep_changes.resolved_circular) > 0
            THEN << [clause |-> "Resolved circular dependencies",
                     n |-> Len(dep_changes.resolved_circular)] >>
            ELSE << >>)
  IN IF lines = << >> THEN SentinelSummary ELSE lines

CompareOf(base, compare, new_circular, resolved_circular) ==
  LET file_changes == CompareFileStructures(base, compare)
      metric_changes == CompareMetrics(base, compare)
      dep_changes == CompareDependencies(base, compare, new_circular, resolved_circular)
  IN [files_added |-> file_changes.added,
      files_removed |-> file_changes.removed,
      files_modified |-> file_changes.modified,
      files_unchanged |-> file_changes.unchanged,
      size_change_bytes |-> metric_changes.size_change,
      size_change_percent |-> metric_changes.size_change_percent,
      lines_change |-> metric_changes.lines_change,
      lines_change_percent |-> metric_changes.lines_change_percent,
      classes_change |-> metric_changes.classes_change,
      functions_change |-> metric_changes.functions_change,
      dependencies_added |-> dep_changes.added,
      dependencies_removed |-> dep_changes.removed,
      new_circular_dependencies |-> dep_changes.new_circular,
      resolved_circular_dependencies |-> dep_changes.resolved_circular,
      similarity_score |-> CalculateSimilarity(base, compare),
      comparison_summary |-> GenerateSummary(file_changes, metric_changes, dep_changes)]

\* The snapshots handed to compare().  A file is small or large, and its
\* hash is one of two digests, the "" that compute_file_hash returns when
\* the file cannot be read, or the None of a record made without one.
FileVariants ==
  [size_bytes : { 100, 2000 }, content_hash : { "", "h1" }]
  \cup [size_bytes : { 100 }, content_hash : { None, "h2" }]

FilesOn(S) ==
  { [i \in 1..Cardinality(S) |->
       [relative_path |-> Sorted(S, CmpPaths)[i],
        size_bytes |-> v[Sorted(S, CmpPaths)[i]].size_bytes,
        content_hash |-> v[Sorted(S, CmpPaths)[i]].content_hash]] :
    v \in [S -> FileVariants] }

FileLists ==
  UNION { FilesOn(S) : S \in { T \in SUBSET Range(CmpPaths) : Cardinality(T) <= MaxCmpFiles } }

RECURSIVE SumSizes(_)
SumSizes(files) ==
  IF files = << >> THEN 0 ELSE files[1].size_bytes + SumSizes(Tail(files))

Metrics ==
  { [total_lines |-> 0, total_classes |-> 0, total_functions |-> 0],
    [total_lines |-> 10, total_classes |-> 0, total_functions |-> 0],
    [total_lines |-> 10, total_classes |-> 1, total_functions |-> 2] }

Cycles == { << "a.py", "b.py", "a.py" >>, << "c.py", "c.py" >> }

Deps ==
  { Absent }
  \cup [external_packages : { << >>, << "numpy" >>, << "requests" >>,
                              << "numpy", "requests" >> },
        circular_dependencies : UNION { Orders(C) : C \in SUBSET Cycles }]

Snapshot(files, m, d) ==
  [files |-> files,
   total_files |-> Len(files),
   total_bytes |-> SumSizes(files),
   total_lines |-> m.total_lines,
   total_classes |-> m.total_classes,
   total_functions |-> m.total_functions,
   dependencies |-> d]

PlainMetrics == [total_lines |-> 10, total_classes |-> 0, total_functions |-> 0]
PlainDeps == [external_packages |-> << >>, circular_dependencies |-> << >>]

\* every file list with one set of metrics, and every set of metrics and
\* dependencies with the file lists of at most one unhashed small file
Snapshots ==
  { Snapshot(files, PlainMetrics, PlainDeps) : files \in FileLists }
  \cup { Snapshot(files, m, d) :
           files \in { fl \in FileLists :
                         /\ Len(fl) <= 1
                         /\ \A i \in 1..Len(fl) :
                              /\ fl[i].relative_path = CmpPaths[1]
                              /\ fl[i].size_bytes = 100
                              /\ fl[i].content_hash = "" },
           m \in Metrics, d \in Deps }

\* No graph is being built while snapshots are compared.
NoBuilder ==
  /\ tree = << >>
  /\ pc = "idle"
  /\ files_data = << >>
  /\ graph = << >>
  /\ reverse_graph = << >>
  /\ circular_deps = << >>
  /\ missing_imports = << >>
  /\ visited = {}
  /\ rec_stack = {}
  /\ frames = << >>
  /\ root_i = 1
  /\ graph_data = None
  /\ first_data = << >>

InitCompare ==
  /\ NoBuilder
  /\ NoComparison
  /\ NoMetadata
  /\ NoRoute

\* what the caller of compare() gets when it raises
Raised(exception) == [raised |-> exception]

\* compare(base, compare) on a comparator that has compared nothing yet,
\* as routes/comparison.py makes one for every request.  With None for a
\* snapshot, base.name or compare.name raises before anything is stored.
\* list() of the two set differences of cycles comes in any order.
Compare ==
  /\ comparison = Absent
  /\ \E base \in Snapshots \cup { Absent }, compare \in Snapshots \cup { Absent } :
       IF base = Absent \/ compare = Absent
       THEN /\ comparison' = Raised("AttributeError")
            /\ UNCHANGED << base_metadata, compare_metadata >>
       ELSE \E new_circular \in Orders(NewCircular(base, compare)),
               resolved_circular \in Orders(ResolvedCircular(base, compare)) :
              /\ base_metadata' = base
              /\ compare_metadata' = compare
              /\ comparison' = CompareOf(base, compare, new_circular, resolved_circular)
  /\ UNCHANGED << gvars, mvars, rvars >>

NextCompare == Compare

SpecCompare == InitCompare /\ [][NextCompare]_vars

----------------------------------------------------------------------------
\* MetadataBuilder.  A file of the upload directory is its relative path, the
\* directories above it, and what reading it gives: `kind` says whether
\* stat(), open() and ast.parse() succeed on it.

\* Largest number of files in an upload directory.
MaxMetaFiles == 3

SUPPORTED_EXTENSIONS == { ".py", ".js", ".ts", ".jsx", ".tsx", ".java", ".cpp", ".c", ".h" }
EXCLUDE_DIRS == { "__pycache__", ".git", "venv", "node_modules", ".venv", "env", "build", "dist" }

File(path, dirs, filename, ext, kind, size, lines, classes, functions, imports, hash) ==
  [relative_path |-> path, dirs |-> dirs, filename |-> filename, ext |-> ext, kind |-> kind,
   size_bytes |-> size, lines |-> lines, classes |-> classes,
   functions |-> functions, imports |-> imports, hash |-> hash]

\* lines is content.count('\n') + 1; classes, functions and imports are what
\* the syntax tree holds when there is one.
FilePool ==
  { File("main.py", << >>, "main.py", ".py", "valid", 100, 10, 1, 2,
         << << "os" >>, << "app", "models" >> >>, "h1"),
    File("app/models.py", << "app" >>, "models.py", ".py", "valid", 2000, 5, 2, 0,
         << << "numpy" >> >>, "h2"),
    File("empty.py", << >>, "empty.py", ".py", "valid", 0, 1, 0, 0, << >>, "h0"),
    File("broken.py", << >>, "broken.py", ".py", "syntax_error", 50, 7, 0, 0, << >>, "h3"),
    File("app/bad.py", << "app" >>, "bad.py", ".py", "syntax_error", 30, 3, 0, 0, << >>, "h4"),
    File("latin.py", << >>, "latin.py", ".py", "undecodable", 40, 4, 0, 0, << >>, "h5"),
    File("locked.py", << >>, "locked.py", ".py", "unreadable", 60, 6, 0, 0, << >>, "h6"),
    File("gone.py", << >>, "gone.py", ".py", "stat_fails", 70, 2, 0, 0, << >>, "h7"),
    File("web/ui.js", << "web" >>, "ui.js", ".js", "valid", 300, 20, 0, 0, << >>, "h8"),
    File("README.md", << >>, "README.md", ".md", "valid", 10, 2, 0, 0, << >>, "h9"),
    File("venv/lib.py", << "venv" >>, "lib.py", ".py", "valid", 500, 9, 1, 1, << >>, "h10"),
    File("app/views.py", << "app" >>, "views.py", ".py", "valid", 80, 8, 0, 1,
         << << "models" >>, << "utils" >> >>, "h11") }

UploadDirs == { T \in SUBSET FilePool : Cardinality(T) <= MaxMetaFiles }

\* the imported names, in sorted() order
ImportNames ==
  << << "app", "models" >>, << "models" >>, << "numpy" >>, << "os" >>, << "utils" >> >>

\* upload_dir.walk() with the excluded directories pruned
Walked(dir) ==
  { f \in dir : \A i \in 1..Len(f.dirs) : f.dirs[i] \notin EXCLUDE_DIRS }

IsProperPrefix(s, t) == Len(s) < Len(t) /\ SubSeq(t, 1, Len(s)) = s

\* _extract_python_metrics with the SyntaxError handler giving up the line
\* count as the outer handler does
ExtractPythonMetricsNoRawLines(f) ==
  IF f.kind \in { "undecodable", "unreadable", "syntax_error" }
  THEN [lines |-> 0, classes |-> 0, functions |-> 0, imports |-> << >>]
  ELSE [lines |-> f.lines, classes |-> f.classes,
        functions |-> f.functions, imports |-> f.imports]

ExtractPythonMetrics(f) ==
  IF f.kind \in { "undecodable", "unreadable" }
  THEN [lines |-> 0, classes |-> 0, functions |-> 0, imports |-> << >>]
  ELSE IF f.kind = "syntax_error"
  THEN [lines |-> f.lines, classes |-> 0, functions |-> 0, imports |-> << >>]
  ELSE [lines |-> f.lines, classes |-> f.classes,
        functions |-> f.functions, imports |-> f.imports]

\* compute_file_hash: "" when the file cannot be opened
ComputeFileHash(f) == IF f.kind = "unreadable" THEN "" ELSE f.hash

\* "not imp.startswith('.') and '.' not in imp": a name of one component
IsExternalPackage(imp) == Len(imp) = 1

FolderName(f) == IF f.dirs = << >> THEN "root" ELSE f.dirs[1]

\* the FileMetadataStandard of a file
FileMeta(f) ==
  LET metrics == ExtractPythonMetrics(f)
      python == f.ext = ".py"
  IN [relative_path |-> f.relative_path,
      filename |-> f.filename,
      size_bytes |-> f.size_bytes,
      extension |-> f.ext,
      lines_count |-> IF python THEN metrics.lines ELSE None,
      classes_count |-> IF python THEN metrics.classes ELSE 0,
      functions_count |-> IF python THEN metrics.functions ELSE 0,
      imports |-> IF python THEN metrics.imports ELSE << >>,
      content_hash |-> IF python THEN ComputeFileHash(f) ELSE ""]

InitMeta ==
  /\ NoBuilder
  /\ NoComparison
  /\ NoRoute
  /\ upload_dir \in UploadDirs
  /\ mpc = "scan"
  /\ scanned = << >>
  /\ files_metadata = << >>
  /\ file_types = << >>
  /\ folder_structure = << >>
  /\ total_bytes = 0
  /\ total_lines = 0
  /\ total_classes = 0
  /\ total_functions = 0
  /\ external_packages = {}
  /\ metadata = Absent

Unscanned == { f \in Walked(upload_dir) : f.relative_path \notin Range(scanned) }

\* the directory of the file scanned last
LastDirs ==
  (CHOOSE h \in upload_dir : h.relative_path = scanned[Len(scanned)]).dirs

\* walk() is top-down and lists one directory at a time, its files in the
\* order the file system gives them
NextInWalk(f) ==
  /\ f \in Unscanned
  /\ \A g \in Unscanned : ~IsProperPrefix(g.dirs, f.dirs)
  /\ (scanned # << >> /\ \E g \in Unscanned : g.dirs = LastDirs) => f.dirs = LastDirs

\* _scan_directory, one turn of "for filename in filenames"
MetaScanFile ==
  /\ mpc = "scan"
  /\ \E f \in upload_dir :
       /\ NextInWalk(f)
       /\ scanned' = Append(scanned, f.relative_path)
       /\ IF f.ext \notin SUPPORTED_EXTENSIONS \/ f.kind = "stat_fails"
          THEN UNCHANGED << files_metadata, file_types, folder_structure, total_bytes,
                            total_lines, total_classes, total_functions,
                            external_packages >>
          ELSE LET file_meta == FileMeta(f)
               IN /\ IF f.ext = ".py"
                     THEN /\ total_lines' = total_lines + file_meta.lines_count
                          /\ total_classes' = total_classes + file_meta.classes_count
                          /\ total_functions' = total_functions + file_meta.functions_count
                          /\ external_packages' = external_packages \cup
                               { imp \in Range(file_meta.imports) : IsExternalPackage(imp) }
                     ELSE UNCHANGED << total_lines, total_classes, total_functions,
                                       external_packages >>
                  /\ files_metadata' = Append(files_metadata, file_meta)
                  /\ file_types' = DictSet(file_types, f.ext, DictGet(file_types, f.ext, 0) + 1)
                  /\ folder_structure' = DictSet(folder_structure, FolderName(f),
                                                 DictGet(folder_structure, FolderName(f), 0) + 1)
                  /\ total_bytes' = total_bytes + f.size_bytes
  /\ UNCHANGED << upload_dir, mpc, metadata, gvars, cvars, rvars >>

BuildDependencyMetadata ==
  [total_dependencies |-> 0,
   circular_dependencies |-> << >>,
   most_imported_files |-> << >>,
   missing_imports |-> << >>,
   external_packages |-> Sorted(external_packages, ImportNames)]

\* build_metadata once the directory is scanned
BuildMetadata ==
  /\ mpc = "scan"
  /\ Unscanned = {}
  /\ mpc' = "done"
  /\ metadata' = [total_files |-> Len(files_metadata),
                  total_bytes |-> total_bytes,
                  file_types |-> file_types,
                  folder_structure |-> folder_structure,
                  total_lines |-> total_lines,
                  total_classes |-> total_classes,
                  total_functions |-> total_functions,
                  dependencies |-> BuildDependencyMetadata,
                  files |-> files_metadata]
  /\ UNCHANGED << upload_dir, scanned, files_metadata, file_types, folder_structure,
                  total_bytes, total_lines, total_classes, total_functions,
                  external_packages, gvars, cvars, rvars >>

NextMeta == MetaScanFile \/ BuildMetadata

SpecMeta == InitMeta /\ [][NextMeta]_vars

----------------------------------------------------------------------------
\* routes/graph.py: GET /graph/{upload_id} for one upload_id, with the
\* cleanup manager removing the upload directory.

\* Largest number of requests made of the route.
MaxRequests == 3

\* the uploaded trees: at most one import per file, of a module of Paths
UploadedTrees ==
  UNION { [F -> { [ok |-> TRUE, body |-> b] :
                    b \in { << >> } \cup { << ImportStmt(t) >> : t \in ModuleTokens } }] :
          F \in SUBSET Paths }

HTTPException(status_code) == [status_code |-> status_code, body |-> None]

Returned(body) == [status_code |-> 200, body |-> body]

InitRoute ==
  /\ tree \in UploadedTrees
  /\ pc = "idle"
  /\ files_data = << >>
  /\ graph = << >>
  /\ reverse_graph = << >>
  /\ circular_deps = << >>
  /\ missing_imports = << >>
  /\ visited = {}
  /\ rec_stack = {}
  /\ frames = << >>
  /\ root_i = 1
  /\ graph_data = None
  /\ first_data = << >>
  /\ NoComparison
  /\ NoMetadata
  /\ NoRoute

\* get_dependency_graph up to the call of build_graph: the cached graph, or
\* 404 when the directory is not there, or a new builder
GetDependencyGraph ==
  /\ pc = "idle"
  /\ requests < MaxRequests
  /\ requests' = requests + 1
  /\ IF graph_cache # << >>
     THEN /\ response' = Returned(graph_cache[1])
          /\ UNCHANGED << pc, files_data, graph, reverse_graph, circular_deps,
                          missing_imports, visited, rec_stack, frames, root_i, graph_data >>
     ELSE IF ~dir_present
     THEN /\ response' = HTTPException(404)
          /\ UNCHANGED << pc, files_data, graph, reverse_graph, circular_deps,
                          missing_imports, visited, rec_stack, frames, root_i, graph_data >>
     ELSE /\ pc' = "scan"
          /\ files_data' = << >>
          /\ graph' = << >>
          /\ reverse_graph' = << >>
          /\ circular_deps' = << >>
          /\ missing_imports' = << >>
          /\ visited' = {}
          /\ rec_stack' = {}
          /\ frames' = << >>
          /\ root_i' = 1
          /\ graph_data' = None
          /\ UNCHANGED response
  /\ UNCHANGED << tree, first_data, dir_present, graph_cache, cvars, mvars >>

\* get_dependency_graph after build_graph returned: cache and return
ReturnGraph ==
  /\ pc = "done"
  /\ requests > 0
  /\ graph_cache' = << graph_data >>
  /\ response' = Returned(graph_data)
  /\ pc' = "idle"
  /\ UNCHANGED << tree, files_data, graph, reverse_graph, circular_deps, missing_imports,
                  visited, rec_stack, frames, root_i, graph_data, first_data,
                  dir_present, requests, cvars, mvars >>

\* get_dependency_graph when build_graph raised: "except Exception"
ReturnError ==
  /\ pc = "raised"
  /\ requests > 0
  /\ response' = HTTPException(500)
  /\ pc' = "idle"
  /\ UNCHANGED << tree, files_data, graph, reverse_graph, circular_deps, missing_imports,
                  visited, rec_stack, frames, root_i, graph_data, first_data,
                  dir_present, graph_cache, requests, cvars, mvars >>

\* FileCleanupManager.cleanup_specific_upload between two requests, or the
\* rmtree of the scheduled cleanup thread before build_graph has listed the
\* directory: the directory goes, and nothing is done to _graph_cache
CleanupSpecificUpload ==
  /\ dir_present
  /\ pc = "idle" \/ (pc = "scan" /\ files_data = << >>)
  /\ dir_present' = FALSE
  /\ tree' = << >>
  /\ UNCHANGED << pc, files_data, graph, reverse_graph, circular_deps, missing_imports,
                  visited, rec_stack, frames, root_i, graph_data, first_data,
                  graph_cache, response, requests, cvars, mvars >>

NextRoute ==
  \/ Next
  \/ GetDependencyGraph
  \/ ReturnGraph
  \/ ReturnError
  \/ CleanupSpecificUpload

SpecRoute == InitRoute /\ [][NextRoute]_vars

----------------------------------------------------------------------------
\* Properties of the dependency graph builder

Built == pc \in { "detect", "done", "raised" }

Forward(s) == DictGet(graph, s, {})

Reverse(t) == DictGet(reverse_graph, t, {})

EdgeSet == { e \in Paths \X Paths : e[2] \in Forward(e[1]) }

\* The tokens the import statements of a file of the tree name.
TokensOf(f) ==
  IF tree[f].ok
  THEN UNION { Range(tree[f].body[i].names) : i \in 1..Len(tree[f].body) }
  ELSE {}

ScanPos(f) == CHOOSE i \in 1..Len(files_data) : files_data[i].k = f

IsSuffixOf(s, name) ==
  Len(s) <= Len(name) /\ SubSeq(name, Len(name) - Len(s) + 1, Len(name)) = s

\* C1: once the relationships are built, and so after build_graph, the
\* reverse adjacency is the transpose of the forward adjacency: t is in
\* graph[s] exactly when s is in reverse_graph[t].
C1_ReverseIsTranspose ==
  Built => \A s, t \in Paths : (t \in Forward(s)) <=> (s \in Reverse(t))

C1_Witness ==
  /\ pc = "done"
  /\ \E s, t \in Paths : s # t /\ t \in Forward(s) /\ s \notin Forward(t)

\* The tree has three files and its resolved import edges are A->B, B->C, C->A.
ThreeRing ==
  /\ Cardinality(DOMAIN tree) = 3
  /\ \E A, B, C \in DOMAIN tree :
       /\ Cardinality({ A, B, C }) = 3
       /\ EdgeSet = { << A, B >>, << B, C >>, << C, A >> }

\* C2: on a tree of three files whose resolved edges are A->B, B->C, C->A,
\* build_graph returns, and one of the cycles it reports has exactly the
\* files {A, B, C}, whatever the scan order.
C2_ThreeRingReported ==
  ThreeRing =>
    /\ pc # "raised"
    /\ pc = "done" =>
         \E i \in 1..Len(graph_data.circular_dependencies) :
           Range(graph_data.circular_dependencies[i]) = DOMAIN tree

C2_Witness ==
  /\ pc = "done"
  /\ ThreeRing
  /\ files_data[1].k = << "a", "b", "c" >>

\* The forward adjacency has a directed cycle (a self-loop is one).
RECURSIVE ReachIn(_, _)
ReachIn(S, n) ==
  IF n = 0 THEN S
  ELSE ReachIn(S \cup UNION { Forward(x) : x \in S }, n - 1)

HasDirectedCycle ==
  \E x \in Paths : x \in ReachIn(Forward(x), Cardinality(Paths))

\* C3: build_graph reports zero cycles exactly when the forward adjacency
\* has no directed cycle: a build that has ended has returned, with no
\* cycle for an acyclic graph and at least one for a graph with a cycle.
C3_CyclesIffCyclic ==
  pc \in { "done", "raised" } =>
    /\ pc = "done"
    /\ (Len(graph_data.circular_dependencies) = 0) <=> ~HasDirectedCycle

\* C5: when exactly two files of the tree carry a dotted suffix that is the
\* full dotted name of no file, a token equal to that suffix resolves to the
\* one of the two that was scanned first: every file importing the token has
\* its edge to that file.
Carriers(s) == { f \in DOMAIN tree : IsSuffixOf(s, ModuleName(f)) }

SharedSuffix(s) ==
  /\ Cardinality(Carriers(s)) = 2
  /\ \A f \in DOMAIN tree : ModuleName(f) # s

FirstScanned(S) == CHOOSE f \in S : \A g \in S : ScanPos(f) <= ScanPos(g)

C5_FirstScannedWins ==
  Built =>
    \A s \in Tokens :
      SharedSuffix(s) =>
        \A f \in DOMAIN tree :
          s \in TokensOf(f) =>
            /\ FirstScanned(Carriers(s)) \in Forward(f)
            /\ TokensOf(f) = { s } => Forward(f) = { FirstScanned(Carriers(s)) }

C5_Witness ==
  /\ pc = "done"
  /\ SharedSuffix(<< "c" >>)
  /\ files_data[1].k = << "x", "c" >>
  /\ << "c" >> \in TokensOf(<< "a", "b", "c" >>)
  /\ Forward(<< "a", "b", "c" >>) = { << "x", "c" >> }

\* No leading part of the token (the whole token included) names a file:
\* none is a dotted name of a file of the tree or a suffix of one.
Unresolvable(t) ==
  \A i \in 1..Len(t) : \A f \in DOMAIN tree : ~IsSuffixOf(SubSeq(t, 1, i), ModuleName(f))

C4_SecondBuildIdentical ==
  (pc = "done" /\ first_data # << >>) =>
    /\ graph_data.nodes = first_data[1].nodes
    /\ graph_data.edges = first_data[1].edges
    /\ graph_data.circular_dependencies = first_data[1].circular_dependencies
    /\ graph_data.statistics = first_data[1].statistics

C18_WitnessIsolated ==
  /\ pc = "done"
  /\ graph_data.statistics.isolated_files > 0
  /\ graph_data.statistics.total_dependencies > 0

\* the nodes of the dfs calls that have not returned: the current path
CurrentPath == IF frames = << >> THEN {} ELSE Range(Top.path)

\* C20: during cycle detection rec_stack is the set of nodes on the current
\* path, so a visited neighbour found in rec_stack occurs in the path, the
\* cycle slice is always extracted and detection never raises.
C20_RecStackIsCurrentPath ==
  /\ pc = "detect" =>
       /\ rec_stack = CurrentPath
       /\ frames # << >> =>
            \A neighbor \in Top.todo :
              neighbor \in visited \cap rec_stack => neighbor \in Range(Top.path)
  /\ pc # "raised"

UnparsedFiles == { f \in DOMAIN tree : ~tree[f].ok }

NodesOf(f) == { i \in 1..Len(graph_data.nodes) : graph_data.nodes[i].id = f }

\* the outcome of the extractor and of the build for the files that do not
\* parse: no token, a node each, and the edges of the other files only
UnparsedFilesKept ==
  /\ \A f \in UnparsedFiles :
       /\ DictHas(files_data, f)
       /\ DictGet(files_data, f, None) = << >>
       /\ Cardinality(NodesOf(f)) = 1
       /\ \A i \in 1..Len(graph_data.edges) : graph_data.edges[i].from # f
  /\ \A f \in (DOMAIN tree) \ UnparsedFiles :
       /\ Cardinality(NodesOf(f)) = 1
       /\ DictGet(files_data, f, None) = WalkImports(tree[f].body, 1)

\* a syntax_error {line, message} kept for the file by the builder or on
\* its node
HasErrorAnnotation(f) ==
  \/ \E i \in NodesOf(f) : "syntax_error" \in DOMAIN graph_data.nodes[i]
  \/ \E i \in 1..Len(files_data) :
       /\ files_data[i].k = f
       /\ DOMAIN files_data[i] # { "k", "v" }

\* C19: a file that does not parse or cannot be read yields no token and a
\* structured syntax_error, is marked with it, is still a node, and the
\* build completes for the other files.
C19_UnparsedFileAnnotated ==
  pc = "done" =>
    /\ UnparsedFilesKept
    /\ \A f \in UnparsedFiles : HasErrorAnnotation(f)

WellFormedCycle(cycle) ==
  /\ Len(cycle) >= 2
  /\ cycle[1] = cycle[Len(cycle)]
  /\ \A j \in 1..(Len(cycle) - 1) : cycle[j + 1] \in Forward(cycle[j])

\* C21: every cycle build_graph reports (and every cycle the detection has
\* recorded so far) has at least two entries, begins and ends with the same
\* file, and each entry imports the next one: y is in graph[x] for every
\* pair (x, y) of consecutive entries.
C21_CyclesWellFormed ==
  /\ \A i \in 1..Len(circular_deps) : WellFormedCycle(circular_deps[i])
  /\ pc = "done" =>
       \A i \in 1..Len(graph_data.circular_dependencies) :
         WellFormedCycle(graph_data.circular_dependencies[i])

\* a reported cycle of two files, found below the root of its dfs
C21_Witness ==
  /\ pc = "done"
  /\ \E i \in 1..Len(graph_data.circular_dependencies) :
       LET cycle == graph_data.circular_dependencies[i]
       IN /\ Len(cycle) = 3
          /\ cycle[1] # cycle[2]
          /\ cycle[1] # files_data[1].k
          /\ \E f \in DOMAIN tree : f \notin Range(cycle) /\ cycle[1] \in Forward(f)

\* the files reached from x by one import edge or more
Reach(x) == ReachIn(Forward(x), Cardinality(Paths))

\* the strongly connected component of x in the forward adjacency
Component(x) == { x } \cup { y \in Reach(x) : x \in Reach(y) }

\* C22: for every strongly connected component of the forward adjacency
\* that holds a directed cycle, build_graph reports at least one cycle whose
\* files all lie in the component.
C22_CyclePerComponent ==
  pc = "done" =>
    \A x \in DOMAIN tree :
      x \in Reach(x) =>
        \E i \in 1..Len(graph_data.circular_dependencies) :
          Range(graph_data.circular_dependencies[i]) \subseteq Component(x)

\* the module mapping once the first n scanned files have been processed
MapAfter(n) == MapFiles(SubSeq(DictKeys(files_data), 1, n), 1, << >>)

\* C23 as stated: once a dotted name is mapped to a file, processing a
\* later-scanned file never changes the entry.
C23_FirstRegisteredWins ==
  \A n \in 1..Len(files_data) :
    LET before == MapAfter(n - 1)
        after == MapAfter(n)
    IN \A name \in DOMAIN before :
         /\ name \in DOMAIN after
         /\ after[name] = before[name]

\* C23, amended: processing a later-scanned file keeps every entry but the
\* one of that file's own full dotted name, which it takes over; the
\* suffixes it registers never replace an entry.
C23_OnlyOwnNameTakenOver ==
  \A n \in 1..Len(files_data) :
    LET file_path == files_data[n].k
        before == MapAfter(n - 1)
        after == MapAfter(n)
    IN /\ after[ModuleName(file_path)] = file_path
       /\ \A name \in DOMAIN before :
            /\ name \in DOMAIN after
            /\ name # ModuleName(file_path) => after[name] = before[name]

\* a later-scanned file carries a suffix that an earlier file had
\* registered and that is not its own full name: the entry stays
C23_Witness ==
  /\ pc = "done"
  /\ \E n \in 2..Len(files_data) :
       LET before == MapAfter(n - 1)
           after == MapAfter(n)
       IN \E name \in DOMAIN before :
            /\ IsSuffixOf(name, ModuleName(files_data[n].k))
            /\ name # ModuleName(files_data[n].k)
            /\ after[name] = before[name]
            /\ after[name] # files_data[n].k

\* the module mapping of the files scanned so far
ModuleMap == BuildModuleMapping(files_data)

\* the lengths of the leading dotted parts of a token that are keys
KeyPrefixes(t, module_map) == { i \in 1..Len(t) : SubSeq(t, 1, i) \in DOMAIN module_map }

LongestKeyPrefix(t, module_map) ==
  SubSeq(t, 1, CHOOSE i \in KeyPrefixes(t, module_map) :
                 \A j \in KeyPrefixes(t, module_map) : j <= i)

ResolvedTargets(f, module_map) ==
  { x \in DOMAIN tree : \E t \in TokensOf(f) : x = ResolveImport(t, f, module_map) }

\* C25: once the relationships are built, graph[f] is, for every file f,
\* the set of the files f's import tokens resolve to (f has an edge to t
\* exactly when one of its tokens resolves to t), and both ends of every
\* edge are scanned files.
C25_EdgesAreResolvedImports ==
  Built =>
    LET module_map == ModuleMap
    IN /\ \A f \in DOMAIN tree : Forward(f) = ResolvedTargets(f, module_map)
       /\ \A i \in 1..Len(graph) :
            /\ DictHas(files_data, graph[i].k)
            /\ \A t \in graph[i].v : DictHas(files_data, t)

\* a file with two tokens that resolve to two files
C25_Witness ==
  /\ pc = "done"
  /\ \E f \in DOMAIN tree :
       /\ Cardinality(Forward(f)) = 2
       /\ Cardinality(TokensOf(f)) = 2
       /\ f \notin Forward(f)

\* C26: the forward adjacency has no self-loop: no token found in a file f
\* resolves to f itself, so f is never in graph[f] and no cycle of a single
\* file is reported.
C26_NoSelfLoop ==
  /\ Built => \A f \in DOMAIN tree : f \notin Forward(f)
  /\ \A i \in 1..Len(circular_deps) : Cardinality(Range(circular_deps[i])) > 1

EdgesIn(data) == { << data.edges[i].from, data.edges[i].to >> : i \in 1..Len(data.edges) }

\* C27: a second call of build_graph on the same builder, the tree
\* unchanged, returns the nodes, edges, cycles, missing imports and counts
\* of the first call (nodes and edges compared as sets): nothing of the
\* first call survives into the second.
C27_SecondCallIdentical ==
  (pc = "done" /\ first_data # << >>) =>
    LET first == first_data[1]
    IN /\ Range(graph_data.nodes) = Range(first.nodes)
       /\ EdgesIn(graph_data) = EdgesIn(first)
       /\ graph_data.circular_dependencies = first.circular_dependencies
       /\ graph_data.missing_imports = first.missing_imports
       /\ graph_data.statistics.total_files = first.statistics.total_files
       /\ graph_data.statistics.total_dependencies = first.statistics.total_dependencies
       /\ graph_data.statistics.circular_dependencies = first.statistics.circular_dependencies
       /\ graph_data.statistics.missing_imports = first.statistics.missing_imports
       /\ graph_data.statistics.isolated_files = first.statistics.isolated_files

\* the import targets of a module body: every alias of an import, the
\* module (or package) of a from-import
RECURSIVE TargetCount(_, _)
TargetCount(body, i) ==
  IF i > Len(body) THEN 0
  ELSE (IF body[i].kind = "Import" THEN Len(body[i].names) ELSE 1)
       + TargetCount(body, i + 1)

HasRelativeImport(body) ==
  \E i \in 1..Len(body) : body[i].kind = "ImportFrom" /\ body[i].level > 0

\* the same body with every from-import made absolute
AbsoluteTwin(body) == [i \in 1..Len(body) |-> [body[i] EXCEPT !.level = 0]]

\* C29: the extractor emits one token per import target and keeps the
\* relative markers: the tokens of a file with a relative import differ
\* from the tokens of the same file with the import made absolute.
C29_RelativeMarkersKept ==
  \A n \in 1..Len(files_data) :
    LET body == tree[files_data[n].k].body
        imports == files_data[n].v
    IN /\ Len(imports) = TargetCount(body, 1)
       /\ HasRelativeImport(body) =>
            imports # ExtractImports([ok |-> TRUE, body |-> AbsoluteTwin(body)])

\* the scanned files have pairwise distinct dotted names
DistinctDottedNames ==
  \A m, n \in 1..Len(files_data) :
    m # n => ModuleName(files_data[m].k) # ModuleName(files_data[n].k)

\* C30: when the scanned files have pairwise distinct dotted names, the
\* module mapping maps every file's full dotted name to that file, whatever
\* the scan order and the suffixes other files registered before it, and a
\* token equal to the name resolves to the file.
C30_OwnNameMapsToFile ==
  DistinctDottedNames =>
    LET module_map == ModuleMap
    IN \A n \in 1..Len(files_data) :
         LET file_path == files_data[n].k
         IN /\ module_map[ModuleName(file_path)] = file_path
            /\ \A source_file \in Range(DictKeys(files_data)) :
                 ResolveImport(ModuleName(file_path), source_file, module_map) = file_path

\* c.py is scanned after x/c.py, which registered the suffix "c", and the
\* token c of a file gives the edge to c.py
C30_Witness ==
  /\ pc = "done"
  /\ DictHas(files_data, << "c" >>)
  /\ DictHas(files_data, << "x", "c" >>)
  /\ ScanPos(<< "x", "c" >>) < ScanPos(<< "c" >>)
  /\ \E f \in DOMAIN tree : TokensOf(f) = { << "c" >> } /\ Forward(f) = { << "c" >> }

----------------------------------------------------------------------------
\* Properties of the comparator

\* compare() has returned a comparison
Compared == comparison # Absent /\ "raised" \notin DOMAIN comparison

\* C7: comparing a snapshot with itself gives similarity 1.0, no added,
\* removed or modified file, and the summary "No significant changes
\* detected".
C7_SelfComparison ==
  (Compared /\ base_metadata = compare_metadata) =>
    /\ comparison.similarity_score = 1000
    /\ comparison.files_added = << >>
    /\ comparison.files_removed = << >>
    /\ comparison.files_modified = << >>
    /\ comparison.comparison_summary = SentinelSummary

\* a snapshot of two files, with cycles and packages, compared with itself
C7_Witness ==
  /\ Compared
  /\ base_metadata = compare_metadata
  /\ \/ Len(base_metadata.files) >= 2
     \/ /\ base_metadata.dependencies # Absent
        /\ base_metadata.dependencies.circular_dependencies # << >>
        /\ base_metadata.files # << >>

\* the same with a snapshot that has no file at all
C7_WitnessEmpty ==
  /\ Compared
  /\ base_metadata = compare_metadata
  /\ base_metadata.files = << >>

NoRepeat(s) == Cardinality(Range(s)) = Len(s)

\* C8: files_added is the paths of the candidate that the base lacks,
\* files_removed the paths of the base that the candidate lacks, and every
\* path of both is in exactly one of files_modified and files_unchanged; the
\* four lists are pairwise disjoint and cover the union of the path sets.
C8_FileListsPartition ==
  Compared =>
    LET base_paths == PathsOf(base_metadata)
        compare_paths == PathsOf(compare_metadata)
        added == Range(comparison.files_added)
        removed == Range(comparison.files_removed)
        modified == Range(comparison.files_modified)
        unchanged == Range(comparison.files_unchanged)
    IN /\ added = compare_paths \ base_paths
       /\ removed = base_paths \ compare_paths
       /\ modified \cup unchanged = base_paths \cap compare_paths
       /\ modified \cap unchanged = {}
       /\ added \cap removed = {}
       /\ (added \cup removed) \cap (modified \cup unchanged) = {}
       /\ added \cup removed \cup modified \cup unchanged = base_paths \cup compare_paths
       /\ NoRepeat(comparison.files_added \o comparison.files_removed
                     \o comparison.files_modified \o comparison.files_unchanged)

\* one file added, one removed and the common one modified
C8_Witness ==
  /\ Compared
  /\ comparison.files_added # << >>
  /\ comparison.files_removed # << >>
  /\ comparison.files_modified # << >>

\* a common file that is unchanged beside an added one
C8_WitnessUnchanged ==
  /\ Compared
  /\ comparison.files_added # << >>
  /\ comparison.files_unchanged # << >>

C13_MissingInputFails ==
  comparison # Absent =>
    \/ /\ "raised" \in DOMAIN comparison
       /\ base_metadata = Absent
       /\ compare_metadata = Absent
    \/ /\ Compared
       /\ base_metadata # Absent
       /\ compare_metadata # Absent
       /\ base_metadata.dependencies # Absent
       /\ compare_metadata.dependencies # Absent

HasClause(name) ==
  \E i \in 1..Len(comparison.comparison_summary) :
    comparison.comparison_summary[i].clause = name

\* C14: the summary is the sentinel exactly when every finding is empty, and
\* each finding has its clause exactly when it is not empty: files added,
\* removed, modified; the size and line deltas; dependencies added and
\* removed; new and resolved cycles.
C14_SentinelIffNoFinding ==
  Compared =>
    /\ comparison.comparison_summary = SentinelSummary
         <=> /\ comparison.files_added = << >>
             /\ comparison.files_removed = << >>
             /\ comparison.files_modified = << >>
             /\ comparison.size_change_bytes = 0
             /\ comparison.lines_change = 0
             /\ comparison.dependencies_added = << >>
             /\ comparison.dependencies_removed = << >>
             /\ comparison.new_circular_dependencies = << >>
             /\ comparison.resolved_circular_dependencies = << >>
    /\ HasClause("Added new files") <=> comparison.files_added # << >>
    /\ HasClause("Removed files") <=> comparison.files_removed # << >>
    /\ HasClause("Modified files") <=> comparison.files_modified # << >>
    /\ HasClause("Codebase size") <=> comparison.size_change_bytes # 0
    /\ HasClause("lines") <=> comparison.lines_change # 0
    /\ HasClause("Added dependencies") <=> comparison.dependencies_added # << >>
    /\ HasClause("Removed dependencies") <=> comparison.dependencies_removed # << >>
    /\ HasClause("Introduced new circular dependencies")
         <=> comparison.new_circular_dependencies # << >>
    /\ HasClause("Resolved circular dependencies")
         <=> comparison.resolved_circular_dependencies # << >>

\* C15: a path of both snapshots whose two records have a hash is modified
\* exactly when the hashes differ, whatever the sizes; when a hash is None
\* or empty it is modified exactly when the sizes differ; and compare()
\* returns.
C15_HashThenSize ==
  (base_metadata # Absent /\ compare_metadata # Absent) =>
    /\ Compared
    /\ \A path \in PathsOf(base_metadata) \cap PathsOf(compare_metadata) :
         LET b == FileOf(base_metadata, path)
             c == FileOf(compare_metadata, path)
             hashed == /\ b.content_hash # None /\ b.content_hash # ""
                       /\ c.content_hash # None /\ c.content_hash # ""
             differ == IF hashed THEN b.content_hash # c.content_hash
                       ELSE b.size_bytes # c.size_bytes
         IN /\ path \in Range(comparison.files_modified) <=> differ
            /\ path \in Range(comparison.files_unchanged) <=> ~differ

\* one path with equal hashes and different sizes, unchanged; another with
\* a hash missing and different sizes, modified
C15_Witness ==
  /\ Compared
  /\ \E p \in Range(comparison.files_unchanged) :
       /\ FileOf(base_metadata, p).content_hash \notin { None, "" }
       /\ FileOf(base_metadata, p).content_hash = FileOf(compare_metadata, p).content_hash
       /\ FileOf(base_metadata, p).size_bytes # FileOf(compare_metadata, p).size_bytes
  /\ \E p \in Range(comparison.files_modified) :
       /\ FileOf(base_metadata, p).content_hash \in { None, "" }
       /\ FileOf(compare_metadata, p).content_hash \notin { None, "" }
       /\ FileOf(base_metadata, p).size_bytes # FileOf(compare_metadata, p).size_bytes

\* C16: the four deltas are candidate minus base, a percentage is 0 when
\* its base total is 0, and compare() returns whatever the totals are.
C16_MetricDeltas ==
  (base_metadata # Absent /\ compare_metadata # Absent) =>
    /\ Compared
    /\ comparison.size_change_bytes
         = compare_metadata.total_bytes - base_metadata.total_bytes
    /\ comparison.lines_change
         = compare_metadata.total_lines - base_metadata.total_lines
    /\ comparison.classes_change
         = compare_metadata.total_classes - base_metadata.total_classes
    /\ comparison.functions_change
         = compare_metadata.total_functions - base_metadata.total_functions
    /\ base_metadata.total_bytes = 0 => comparison.size_change_percent = 0
    /\ base_metadata.total_lines = 0 => comparison.lines_change_percent = 0

\* a base of no bytes and no lines against a candidate that has both, and
\* classes and functions
C16_Witness ==
  /\ Compared
  /\ base_metadata.total_bytes = 0
  /\ base_metadata.total_lines = 0
  /\ comparison.size_change_bytes > 0
  /\ comparison.lines_change > 0
  /\ comparison.classes_change > 0
  /\ comparison.functions_change > 0

\* C17: for two snapshots that both have a dependency record,
\* dependencies_added is the packages of the candidate that the base lacks
\* and dependencies_removed the converse; new_circular_dependencies is the
\* cycles of the candidate equal, element by element, to no cycle of the
\* base, and resolved_circular_dependencies the converse; no cycle is in
\* both.
C17_DependencyDiff ==
  (Compared /\ base_metadata.dependencies # Absent
            /\ compare_metadata.dependencies # Absent) =>
    LET base_deps == base_metadata.dependencies
        compare_deps == compare_metadata.dependencies
        SameCycle(c, d) == Len(c) = Len(d) /\ \A i \in 1..Len(c) : c[i] = d[i]
        Lacking(cs, ds) ==
          { cs[i] : i \in { k \in 1..Len(cs) : \A j \in 1..Len(ds) : ~SameCycle(cs[k], ds[j]) } }
    IN /\ Range(comparison.dependencies_added)
            = Range(compare_deps.external_packages) \ Range(base_deps.external_packages)
       /\ Range(comparison.dependencies_removed)
            = Range(base_deps.external_packages) \ Range(compare_deps.external_packages)
       /\ NoRepeat(comparison.dependencies_added)
       /\ NoRepeat(comparison.dependencies_removed)
       /\ Range(comparison.new_circular_dependencies)
            = Lacking(compare_deps.circular_dependencies, base_deps.circular_dependencies)
       /\ Range(comparison.resolved_circular_dependencies)
            = Lacking(base_deps.circular_dependencies, compare_deps.circular_dependencies)
       /\ NoRepeat(comparison.new_circular_dependencies)
       /\ NoRepeat(comparison.resolved_circular_dependencies)
       /\ Range(comparison.new_circular_dependencies)
            \cap Range(comparison.resolved_circular_dependencies) = {}

\* a package added and another removed, a cycle new and another resolved
C17_Witness ==
  /\ Compared
  /\ comparison.dependencies_added # << >>
  /\ comparison.dependencies_removed # << >>
  /\ comparison.new_circular_dependencies # << >>
  /\ comparison.resolved_circular_dependencies # << >>

----------------------------------------------------------------------------
\* Properties of the metadata builder

MetadataBuilt == mpc = "done"

ValidFiles == { f \in upload_dir : f.kind = "valid" }
MalformedFiles == { f \in upload_dir : f.kind = "syntax_error" }

\* an upload directory of valid Python files and one malformed Python file
OneMalformedAmongValid ==
  /\ upload_dir = Walked(upload_dir)
  /\ \A f \in upload_dir : f.ext = ".py"
  /\ upload_dir = ValidFiles \cup MalformedFiles
  /\ Cardinality(MalformedFiles) = 1

RecordsOf(f) ==
  { i \in 1..Len(metadata.files) : metadata.files[i].relative_path = f.relative_path }

\* a record that says its file did not parse
HasSyntaxErrorAnnotation(file_meta) ==
  \E field \in DOMAIN file_meta :
    field \notin { "relative_path", "filename", "size_bytes", "extension", "lines_count",
                   "classes_count", "functions_count", "imports", "content_hash" }

RECURSIVE SumOver(_, _)
SumOver(F, field) ==
  IF F = {} THEN 0
  ELSE LET f == CHOOSE g \in F : TRUE IN f[field] + SumOver(F \ { f }, field)

\* the totals of the snapshot: every file's raw lines, and the classes and
\* functions of the valid files alone
MalformedFileTotals ==
  /\ metadata.total_files = Cardinality(upload_dir)
  /\ \A f \in ValidFiles :
       \E i \in RecordsOf(f) :
         /\ RecordsOf(f) = { i }
         /\ metadata.files[i].lines_count = f.lines
         /\ metadata.files[i].classes_count = f.classes
         /\ metadata.files[i].functions_count = f.functions
  /\ \A f \in MalformedFiles :
       \E i \in RecordsOf(f) :
         /\ RecordsOf(f) = { i }
         /\ metadata.files[i].lines_count = f.lines
         /\ metadata.files[i].classes_count = 0
         /\ metadata.files[i].functions_count = 0
  /\ metadata.total_lines = SumOver(upload_dir, "lines")
  /\ metadata.total_classes = SumOver(ValidFiles, "classes")
  /\ metadata.total_functions = SumOver(ValidFiles, "functions")

\* C10: of N valid Python files and one malformed one, the snapshot holds N
\* records with their metrics and one record annotated as a syntax error;
\* the malformed file adds its raw lines to total_lines and nothing to
\* total_classes and total_functions.
C10_MalformedFileAnnotated ==
  (MetadataBuilt /\ OneMalformedAmongValid) =>
    /\ MalformedFileTotals
    /\ \A f \in ValidFiles :
         \A i \in RecordsOf(f) : ~HasSyntaxErrorAnnotation(metadata.files[i])
    /\ \A f \in MalformedFiles :
         \E i \in RecordsOf(f) : HasSyntaxErrorAnnotation(metadata.files[i])

\* the files whose processing fails at stat(), at open()/read() or at parse
FailingFiles ==
  { f \in Walked(upload_dir) :
      /\ f.ext \in SUPPORTED_EXTENSIONS
      /\ \/ f.kind = "stat_fails"
         \/ f.ext = ".py" /\ f.kind \in { "unreadable", "undecodable", "syntax_error" } }

SupportedFiles == { f \in Walked(upload_dir) : f.ext \in SUPPORTED_EXTENSIONS }

RecordedPaths == { files_metadata[i].relative_path : i \in 1..Len(files_metadata) }

ScannedFiles == { f \in upload_dir : f.relative_path \in Range(scanned) }

RecordOf(f) ==
  files_metadata[CHOOSE i \in 1..Len(files_metadata) :
                   files_metadata[i].relative_path = f.relative_path]

PythonOf(F) == { f \in F : f.ext = ".py" }

\* C11 as stated: a file that fails at stat, read or parse is skipped -- no
\* record, no share in any total -- and every other supported file is
\* recorded with its metrics.
C11_FailingFileSkipped ==
  MetadataBuilt =>
    LET others == SupportedFiles \ FailingFiles
    IN /\ Range(scanned) = { f.relative_path : f \in Walked(upload_dir) }
       /\ RecordedPaths = { f.relative_path : f \in others }
       /\ metadata.total_bytes = SumOver(others, "size_bytes")
       /\ metadata.total_lines = SumOver(PythonOf(others), "lines")
       /\ metadata.total_classes = SumOver(PythonOf(others), "classes")
       /\ metadata.total_functions = SumOver(PythonOf(others), "functions")

\* C11, amended: no failure stops the scan, and at every turn of the loop the
\* records are those of the supported files visited so far whose stat()
\* succeeded, in the order visited.  A file whose stat() fails has no record
\* and no share in a total; a file that cannot be read is recorded with 0
\* lines and a file that does not parse with its raw lines, both with 0
\* classes and functions and with their bytes in total_bytes; every other
\* supported file is recorded with its own metrics.
C11_FailureKeepsScanGoing ==
  LET seen == { f \in ScannedFiles : f.ext \in SUPPORTED_EXTENSIONS /\ f.kind # "stat_fails" }
      parsed == { f \in PythonOf(seen) : f.kind = "valid" }
      counted == { f \in PythonOf(seen) : f.kind \in { "valid", "syntax_error" } }
  IN /\ mpc \in { "scan", "done" }
     /\ MetadataBuilt => Range(scanned) = { f.relative_path : f \in Walked(upload_dir) }
     /\ RecordedPaths = { f.relative_path : f \in seen }
     /\ Len(files_metadata) = Cardinality(seen)
     /\ \A i, j \in 1..Len(files_metadata) :
          i < j => \E k, l \in 1..Len(scanned) :
                     /\ k < l
                     /\ scanned[k] = files_metadata[i].relative_path
                     /\ scanned[l] = files_metadata[j].relative_path
     /\ \A f \in seen :
          /\ RecordOf(f).size_bytes = f.size_bytes
          /\ f \in parsed =>
               /\ RecordOf(f).lines_count = f.lines
               /\ RecordOf(f).classes_count = f.classes
               /\ RecordOf(f).functions_count = f.functions
               /\ RecordOf(f).imports = f.imports
          /\ f \in PythonOf(seen) \ parsed =>
               /\ RecordOf(f).lines_count = IF f \in counted THEN f.lines ELSE 0
               /\ RecordOf(f).classes_count = 0
               /\ RecordOf(f).functions_count = 0
               /\ RecordOf(f).imports = << >>
     /\ total_bytes = SumOver(seen, "size_bytes")
     /\ total_lines = SumOver(counted, "lines")
     /\ total_classes = SumOver(parsed, "classes")
     /\ total_functions = SumOver(parsed, "functions")

\* a file whose stat() failed and a file that did not parse or read, both
\* visited before a valid file that is recorded
C11_Witness ==
  /\ MetadataBuilt
  /\ \E f, g \in FailingFiles, v \in ValidFiles :
       /\ f.kind = "stat_fails"
       /\ g.kind \in { "syntax_error", "undecodable", "unreadable" }
       /\ v.ext = ".py"
       /\ v.relative_path \in RecordedPaths
       /\ \E i, j, k \in 1..Len(scanned) :
            /\ i < k /\ j < k
            /\ scanned[i] = f.relative_path
            /\ scanned[j] = g.relative_path
            /\ scanned[k] = v.relative_path

\* file_path.replace('/', '.').replace('.py', '') for the Python files of
\* the pool, as the sequence of the segments of the dotted name
DottedNameOf(relative_path) ==
  CASE relative_path = "main.py" -> << "main" >>
    [] relative_path = "app/models.py" -> << "app", "models" >>
    [] relative_path = "empty.py" -> << "empty" >>
    [] relative_path = "broken.py" -> << "broken" >>
    [] relative_path = "app/bad.py" -> << "app", "bad" >>
    [] relative_path = "latin.py" -> << "latin" >>
    [] relative_path = "locked.py" -> << "locked" >>
    [] relative_path = "gone.py" -> << "gone" >>
    [] relative_path = "venv/lib.py" -> << "venv", "lib" >>
    [] relative_path = "app/views.py" -> << "app", "views" >>

\* a single-segment token resolves to a file of the tree when it is the
\* last segment of the dotted name of one of its Python files
ResolvesInTree(name) ==
  \E f \in upload_dir :
    /\ f.ext = ".py"
    /\ IsSuffixOf(name, DottedNameOf(f.relative_path))

\* C28: every name in the external-package set of a snapshot is external:
\* a single-segment import token that resolves to no file of the analysed
\* tree and is not a local-looking top-level name.
C28_ExternalPackagesAreExternal ==
  mpc = "done" =>
    \A i \in 1..Len(metadata.dependencies.external_packages) :
      LET name == metadata.dependencies.external_packages[i]
      IN /\ Len(name) = 1
         /\ ~ResolvesInTree(name)
         /\ ~IsLocalImport(name)

----------------------------------------------------------------------------
\* Properties of the graph route

\* C12: a request for the graph of an upload whose directory is absent is
\* answered at once with 404, and with no graph: neither a cached one nor
\* an empty one.
C12_AbsentRootIsNotFound ==
  [][(requests' = requests + 1 /\ ~dir_present)
       => (pc' = "idle" /\ response'.status_code = 404)]_vars

====
